---- MODULE Spec2Model ----
(***************************************************************************)
(* A model of the bismite parser (src/src/parser.rs): the one-token        *)
(* lookahead cursor over the lexer, the recursive-descent declaration,     *)
(* type and literal parsers and the precedence-climbing expression parser. *)
(* Every parser method is an operator from a parser state to a result      *)
(* (the state after the call, Ok/Err/Panic, and the value or error).       *)
(***************************************************************************)
EXTENDS Integers, Sequences, FiniteSets, TLC

VARIABLES goal, parser, out, pc

vars == <<goal, parser, out, pc>>

(***************************************************************************)
(* Bounds of the inputs.                                                   *)
(***************************************************************************)
MaxSegs == 2
MaxNest == 1
MaxFields == 2
MaxOps == 3
MaxChain == 2
MaxArgs == 2
MaxDecls == 2

(***************************************************************************)
(* Tokens.  A token is its kind, its text (a sequence of characters) and   *)
(* its byte span.  The lexer's output for a source text is a sequence of   *)
(* tokens followed by end-of-stream for ever.                              *)
(***************************************************************************)
Span(s, e) == [s |-> s, e |-> e]

Token(kind, lit, span) == [kind |-> kind, lit |-> lit, span |-> span]

\* What Lexer.advance leaves in lexer.token at position pos of the source.
LexerToken(lexer) ==
    IF lexer.pos <= Len(lexer.source)
    THEN lexer.source[lexer.pos]
    ELSE Token("Eof", <<>>, Span(lexer.eof, lexer.eof))

LexerAdvance(lexer) ==
    IF lexer.pos <= Len(lexer.source)
    THEN [lexer EXCEPT !.pos = lexer.pos + 1]
    ELSE lexer

\* TokenKind::lexer(input): the lexer stands on the first token.
TokenKindLexer(input) == [source |-> input.toks, eof |-> input.len, pos |-> 1]

(***************************************************************************)
(* Results of a parser method: ParseResult, or a panic (unwrap, panic!,    *)
(* unimplemented!, index out of bounds), which aborts the whole parse.     *)
(***************************************************************************)
Ok(p, v) == [p |-> p, tag |-> "Ok", v |-> v]

Err(p, e) == [p |-> p, tag |-> "Err", v |-> e]

Panic(p, why) == [p |-> p, tag |-> "Panic", v |-> [e |-> why]]

\* The ? operator: anything but Ok is handed to the caller as it is; an Ok
\* result is bound (once) and the rest of the method goes on with it.
Only(S) == CHOOSE v \in S : TRUE

Then(e, Rest(_)) ==
    CHOOSE v \in {IF r.tag # "Ok" THEN r ELSE Rest(r) : r \in {e}} : TRUE

\* From<Token> for ParserError: Err(tkn)? turns the token into InvalidToken(tkn, None).
InvalidToken(tkn) == [e |-> "InvalidToken", tok |-> tkn]

UnexpectedToken(tkn) == [e |-> "UnexpectedToken", tok |-> tkn]

InvalidArraySize(len) == [e |-> "InvalidArraySize", len |-> len]

ExpectedIntegerLit(kind) == [e |-> "ExpectedIntegerLit", kind |-> kind]

(***************************************************************************)
(* The token cursor.                                                       *)
(***************************************************************************)
\* Parser::new: the first token goes into the lookahead as it is, whatever its kind.
\* Besides the two fields of struct Parser, the record keeps a history:
\* `reported` holds the token of the failure next() has last returned, `loops`
\* names the loops that went round again, `stalled` those that did so without
\* a token consumed in the iteration.
New(input) ==
    LET lexer == TokenKindLexer(input)
    IN  [lexer |-> LexerAdvance(lexer), peek |-> <<LexerToken(lexer)>>,
         reported |-> <<>>, loops |-> {}, stalled |-> {}]

\* next() as it would be if the lexer were advanced on the failing path too.
NextAdvancing(p) ==
    IF p.peek # <<>>
    THEN Ok([p EXCEPT !.peek = <<>>], p.peek[1])
    ELSE IF LexerToken(p.lexer).kind \in {"Error", "Eof"}
    THEN Err([p EXCEPT !.lexer = LexerAdvance(p.lexer), !.reported = <<LexerToken(p.lexer)>>],
             InvalidToken(LexerToken(p.lexer)))
    ELSE Ok([p EXCEPT !.lexer = LexerAdvance(p.lexer)], LexerToken(p.lexer))

next(p) ==
    IF p.peek # <<>>
    THEN Ok([p EXCEPT !.peek = <<>>], p.peek[1])
    ELSE IF LexerToken(p.lexer).kind \in {"Error", "Eof"}
    THEN Err([p EXCEPT !.reported = <<LexerToken(p.lexer)>>], InvalidToken(LexerToken(p.lexer)))
    ELSE Ok([p EXCEPT !.lexer = LexerAdvance(p.lexer)], LexerToken(p.lexer))

peek(p) ==
    IF p.peek # <<>>
    THEN Ok(p, p.peek[1])
    ELSE Then(next(p), LAMBDA r : Ok([r.p EXCEPT !.peek = <<r.v>>], r.v))

eat(p, expected) ==
    Then(next(p), LAMBDA r : IF r.v.kind = expected THEN r ELSE Err(r.p, InvalidToken(r.v)))

\* The number of tokens of the source the parser has consumed (handed out by
\* next): the lexer is one token ahead, and a cached lookahead is not consumed.
Consumed(p) == (p.lexer.pos - 1) - Len(p.peek)

\* The parser at the head of the next iteration of `loop`: q, reached from p
\* at the head of this one, with the iteration entered in the history.
Again(loop, p, q) ==
    [q EXCEPT !.loops = @ \cup {loop},
              !.stalled = IF Consumed(q) > Consumed(p) THEN @ ELSE @ \cup {loop}]

(***************************************************************************)
(* Identifiers, integer literals.                                          *)
(***************************************************************************)
\* GLOBAL_INTERNER.get_or_intern: equal texts get equal symbols, different
\* texts different ones; the symbol is represented by the text it stands for.
GetOrIntern(lit) == lit

parse_ident(p) ==
    Then(eat(p, "Ident"), LAMBDA tkn :
         Ok(tkn.p, [id |-> GetOrIntern(tkn.v.lit), span |-> tkn.v.span]))

DigitValue(c) ==
    CASE c = "0" -> 0 [] c = "1" -> 1 [] c = "2" -> 2 [] c = "3" -> 3
      [] c = "4" -> 4 [] c = "5" -> 5 [] c = "6" -> 6 [] c = "7" -> 7
      [] c = "8" -> 8 [] c = "9" -> 9 [] c = "a" -> 10 [] c = "b" -> 11
      [] c = "c" -> 12 [] c = "d" -> 13 [] c = "e" -> 14 [] c = "f" -> 15
      [] OTHER -> 99

RECURSIVE FromDigits(_, _, _)
FromDigits(s, radix, acc) ==
    IF s = <<>> THEN acc
    ELSE FromDigits(Tail(s), radix, acc * radix + DigitValue(Head(s)))

\* i128::from_str_radix(s, radix): an optional sign, then at least one digit
\* of the radix; anything else is the Err that .unwrap() panics on.
FromStrRadix(s, radix) ==
    LET neg == s # <<>> /\ Head(s) = "-"
        digits == IF s # <<>> /\ Head(s) \in {"-", "+"} THEN Tail(s) ELSE s
    IN  IF digits = <<>> \/ \E i \in 1..Len(digits) : DigitValue(digits[i]) >= radix
        THEN [ok |-> FALSE, val |-> 0]
        ELSE [ok |-> TRUE,
              val |-> IF neg THEN 0 - FromDigits(digits, radix, 0)
                      ELSE FromDigits(digits, radix, 0)]

\* &lit[2..]: the text without its two-character radix prefix.
Drop2(lit) == IF Len(lit) <= 2 THEN <<>> ELSE SubSeq(lit, 3, Len(lit))

\* &lit[1..len - 1]: the text without its delimiters.
Inner(lit) == IF Len(lit) <= 2 THEN <<>> ELSE SubSeq(lit, 2, Len(lit) - 1)

Literal(kind, span) == [kind |-> kind, span |-> span]

\* LiteralKind::Int(i128::from_str_radix(..).unwrap()) with the literal token's span.
IntLiteral(p, conv, span) ==
    IF ~conv.ok THEN Panic(p, "unwrap")
    ELSE Ok(p, Literal([k |-> "Int", val |-> conv.val], span))

(***************************************************************************)
(* Operators of the expression grammar (ast::BinaryOp, ast::UnaryOp).      *)
(***************************************************************************)
\* BinaryOp::try_from(token): the operator a token stands for, "None" for Err.
BinaryOpTryFrom(tkn) ==
    CASE tkn.kind = "Dot" -> "Access"
      [] tkn.kind = "Star" -> "Mul"
      [] tkn.kind = "Slash" -> "Div"
      [] tkn.kind = "Plus" -> "Add"
      [] tkn.kind = "Minus" -> "Sub"
      [] tkn.kind = "Lt" -> "Lt"
      [] tkn.kind = "EqEq" -> "Eq"
      [] tkn.kind = "NotEq" -> "NotEq"
      [] OTHER -> "None"

\* BinaryOp::precedence: access > multiplicative > additive > comparison > equality.
Precedence(op) ==
    CASE op = "Access" -> 5
      [] op \in {"Mul", "Div"} -> 4
      [] op \in {"Add", "Sub"} -> 3
      [] op = "Lt" -> 2
      [] OTHER -> 1

\* UnaryOp::try_from(token) for the two tokens parse_primary hands it.
UnaryOpTryFrom(tkn) == IF tkn.kind = "Minus" THEN "Neg" ELSE "Not"

Expression(kind, span) == [kind |-> kind, span |-> span]

\* The closure continue_loop of parse_inner_expression.
ContinueLoop(tkn, min_prec) ==
    BinaryOpTryFrom(tkn) # "None" /\ Precedence(BinaryOpTryFrom(tkn)) >= min_prec

\* The same guard with >= for >: operators of equal rank would then fold to
\* the right.
BindsTighterOrEqual(tkn, op) ==
    BinaryOpTryFrom(tkn) # "None" /\ Precedence(BinaryOpTryFrom(tkn)) >= Precedence(op)

\* The guard of the inner while: the lookahead is an operator binding
\* strictly tighter than the operator just consumed.
BindsTighter(tkn, op) ==
    BinaryOpTryFrom(tkn) # "None" /\ Precedence(BinaryOpTryFrom(tkn)) > Precedence(op)

\* exprs.push(lhs) in its place: the receiver would become the last argument.
ReceiverLast(lhs, exprs) == Append(exprs, lhs)

\* exprs.insert(0, lhs): the receiver becomes argument 0.
ReceiverFirst(lhs, exprs) == <<lhs>> \o exprs

\* The node built for one consumed operator from lhs and the folded rhs.
Combine(p, lhs, op, rhs) ==
    IF op = "Access"
    THEN IF rhs.kind.k = "Literal" /\ rhs.kind.lit.kind.k = "Ident"
         THEN Ok(p, Expression([k |-> "FieldAccess", base |-> lhs,
                                ident |-> rhs.kind.lit.kind.ident],
                               Span(lhs.span.s, rhs.span.e)))
         ELSE IF rhs.kind.k = "FnCall"
         THEN Ok(p, Expression([k |-> "MethodCall",
                                segment |-> rhs.kind.path.segments[1],
                                exprs |-> ReceiverFirst(lhs, rhs.kind.exprs)],
                               Span(lhs.span.s, rhs.span.e)))
         ELSE Panic(p, "error here")
    ELSE Ok(p, Expression([k |-> "Binary", lhs |-> lhs, op |-> op, rhs |-> rhs],
                          Span(lhs.span.s, rhs.span.e)))

(***************************************************************************)
(* The literal and expression parsers.                                     *)
(***************************************************************************)
RECURSIVE self(_, _, _)
RECURSIVE array_literal_items(_, _)
RECURSIVE inner_expression_loop(_, _, _, _)
RECURSIVE inner_expression_rhs(_, _, _, _)
RECURSIVE expr_list_loop(_, _, _)

parse_literal(p) ==
    Then(peek(p), LAMBDA pk :
      CASE pk.v.kind = "DecLit" ->
             Then(eat(pk.p, "DecLit"), LAMBDA tkn :
                  IntLiteral(tkn.p, FromStrRadix(tkn.v.lit, 10), pk.v.span))
        [] pk.v.kind = "HexLit" ->
             Then(eat(pk.p, "HexLit"), LAMBDA tkn :
                  IntLiteral(tkn.p, FromStrRadix(Drop2(tkn.v.lit), 16), pk.v.span))
        [] pk.v.kind = "OctLit" ->
             Then(eat(pk.p, "OctLit"), LAMBDA tkn :
                  IntLiteral(tkn.p, FromStrRadix(Drop2(tkn.v.lit), 8), pk.v.span))
        [] pk.v.kind = "BinLit" ->
             Then(eat(pk.p, "BinLit"), LAMBDA tkn :
                  IntLiteral(tkn.p, FromStrRadix(Drop2(tkn.v.lit), 2), pk.v.span))
        [] pk.v.kind = "FloatLit" ->
             Then(eat(pk.p, "FloatLit"), LAMBDA tkn :
                  Ok(tkn.p, Literal([k |-> "Float", text |-> tkn.v.lit], pk.v.span)))
        [] pk.v.kind = "RawStr" ->
             Then(eat(pk.p, "RawStr"), LAMBDA tkn :
                  Ok(tkn.p, Literal([k |-> "RawStr", sym |-> GetOrIntern(Inner(tkn.v.lit))],
                                    pk.v.span)))
        [] pk.v.kind = "LBracket" -> self("parse_array_literal", pk.p, <<>>)
        [] pk.v.kind = "Ident" ->
             Then(parse_ident(pk.p), LAMBDA ident :
                  Ok(ident.p, Literal([k |-> "Ident", ident |-> ident.v], ident.v.span)))
        [] OTHER -> Err(pk.p, UnexpectedToken(pk.v)))

parse_integer_literal(p) ==
    Then(self("parse_literal", p, <<>>), LAMBDA lit :
         IF lit.v.kind.k = "Int" THEN Ok(lit.p, lit.v.kind.val)
         ELSE Err(lit.p, ExpectedIntegerLit(lit.v.kind)))

\* The while loop of parse_array_literal.
array_literal_items(p, items) ==
    Then(peek(p), LAMBDA pk :
      IF pk.v.kind = "RBracket" THEN Ok(pk.p, items)
      ELSE Then(self("parse_expression", pk.p, <<>>), LAMBDA e :
           Then(peek(e.p), LAMBDA pk2 :
             IF pk2.v.kind # "RBracket"
             THEN Then(eat(pk2.p, "Comma"), LAMBDA c :
                       array_literal_items(Again("array_literal_items", p, c.p), Append(items, e.v)))
             ELSE array_literal_items(Again("array_literal_items", p, pk2.p), Append(items, e.v)))))

parse_array_literal(p) ==
    Then(eat(p, "LBracket"), LAMBDA lb :
    Then(array_literal_items(lb.p, <<>>), LAMBDA items :
    Then(eat(items.p, "RBracket"), LAMBDA rb :
         Ok(rb.p, Literal([k |-> "Array", items |-> items.v],
                          Span(lb.v.span.s, rb.v.span.e))))))

parse_expression(p) ==
    Then(self("parse_primary", p, <<>>), LAMBDA prim :
         self("parse_inner_expression", prim.p, <<prim.v, 0>>))

\* The inner while of parse_inner_expression: fold tighter operators into rhs.
\* Yields the folded rhs and the lookahead it stopped at.
inner_expression_rhs(p, rhs, pk, op) ==
    IF BindsTighter(pk, op)
    THEN Then(self("parse_inner_expression", p, <<rhs, Precedence(BinaryOpTryFrom(pk))>>),
              LAMBDA r :
         Then(peek(r.p), LAMBDA pk2 :
              inner_expression_rhs(Again("inner_expression_rhs", p, pk2.p), r.v, pk2.v, op)))
    ELSE Ok(p, [rhs |-> rhs, peek |-> pk])

\* The outer while of parse_inner_expression, entered with the lookahead pk.
inner_expression_loop(p, lhs, pk, min_prec) ==
    IF ~ContinueLoop(pk, min_prec) THEN Ok(p, lhs)
    ELSE Then(next(p), LAMBDA nx :
         Then(self("parse_primary", nx.p, <<>>), LAMBDA prim :
         Then(peek(prim.p), LAMBDA pk2 :
         Then(inner_expression_rhs(pk2.p, prim.v, pk2.v, BinaryOpTryFrom(nx.v)), LAMBDA f :
         Then(Combine(f.p, lhs, BinaryOpTryFrom(nx.v), f.v.rhs), LAMBDA c :
              inner_expression_loop(Again("inner_expression_loop", p, c.p), c.v, f.v.peek, min_prec))))))

parse_inner_expression(p, lhs, min_prec) ==
    Then(peek(p), LAMBDA pk : inner_expression_loop(pk.p, lhs, pk.v, min_prec))

parse_primary(p) ==
    Then(peek(p), LAMBDA pk :
      CASE pk.v.kind = "Ident" ->
             Then(parse_ident(pk.p), LAMBDA ident :
             Then(peek(ident.p), LAMBDA pk2 :
               IF pk2.v.kind = "LParen"
               THEN Then(eat(pk2.p, "LParen"), LAMBDA lp :
                    Then(self("parse_expr_list", lp.p, <<"RParen">>), LAMBDA list :
                    Then(eat(list.p, "RParen"), LAMBDA rp :
                         Ok(rp.p, Expression(
                              [k |-> "FnCall",
                               path |-> [segments |-> <<[ident |-> ident.v]>>,
                                         span |-> ident.v.span],
                               exprs |-> list.v],
                              Span(ident.v.span.s, rp.v.span.e))))))
               ELSE Ok(pk2.p, Expression(
                         [k |-> "Literal",
                          lit |-> Literal([k |-> "Ident", ident |-> ident.v], ident.v.span)],
                         ident.v.span))))
        [] pk.v.kind \in {"LBracket", "DecLit", "HexLit", "OctLit", "BinLit",
                          "FloatLit", "RawStr"} ->
             Then(self("parse_literal", pk.p, <<>>), LAMBDA lit :
                  Ok(lit.p, Expression([k |-> "Literal", lit |-> lit.v], lit.v.span)))
        [] pk.v.kind \in {"Minus", "Not"} ->
             Then(next(pk.p), LAMBDA uo_t :
             Then(self("parse_expression", uo_t.p, <<>>), LAMBDA rhs :
                  Ok(rhs.p, Expression(
                       [k |-> "Unary", op |-> UnaryOpTryFrom(uo_t.v), rhs |-> rhs.v],
                       Span(uo_t.v.span.s, rhs.v.span.e)))))
        [] pk.v.kind = "LParen" ->
             Then(next(pk.p), LAMBDA lp :
             Then(self("parse_expression", lp.p, <<>>), LAMBDA expr :
             Then(eat(expr.p, "RParen"), LAMBDA rp : Ok(rp.p, expr.v))))
        [] OTHER -> Panic(pk.p, "unimplemented"))

\* The loop of parse_expr_list: an expression first, then the separator test.
expr_list_loop(p, closing, exprs) ==
    Then(self("parse_expression", p, <<>>), LAMBDA e :
    Then(peek(e.p), LAMBDA pk :
      IF pk.v.kind = "Comma"
      THEN Then(eat(pk.p, "Comma"), LAMBDA c :
           Then(peek(c.p), LAMBDA pk2 :
             IF pk2.v.kind = closing THEN Ok(pk2.p, Append(exprs, e.v))
             ELSE expr_list_loop(Again("expr_list_loop", p, pk2.p), closing, Append(exprs, e.v))))
      ELSE IF pk.v.kind = closing THEN Ok(pk.p, Append(exprs, e.v))
      ELSE expr_list_loop(Again("expr_list_loop", p, pk.p), closing, Append(exprs, e.v))))

parse_expr_list(p, closing) == expr_list_loop(p, closing, <<>>)

(***************************************************************************)
(* The type parser.                                                        *)
(***************************************************************************)
RECURSIVE path_segments(_, _)

\* A path of one segment only: the loop would stop after its first identifier.
PathContinuesOnce(kind, segments) == kind = "Ident" /\ segments = <<>>

\* The guard of the segment loop of parse_path: the lookahead is an identifier.
PathContinues(kind, segments) == kind = "Ident"

parse_path_segment(p) ==
    Then(parse_ident(p), LAMBDA ident : Ok(ident.p, [ident |-> ident.v]))

\* The while loop of parse_path.
path_segments(p, segments) ==
    Then(peek(p), LAMBDA pk :
      IF PathContinues(pk.v.kind, segments)
      THEN Then(parse_path_segment(pk.p), LAMBDA seg :
                path_segments(Again("path_segments", p, seg.p), Append(segments, seg.v)))
      ELSE Ok(pk.p, segments))

parse_path(p) ==
    Then(peek(p), LAMBDA pk :
    Then(IF pk.v.kind = "PathSeparator" THEN eat(pk.p, "PathSeparator") ELSE pk, LAMBDA sep :
    Then(path_segments(sep.p, <<>>), LAMBDA segs :
      IF segs.v = <<>> THEN Panic(segs.p, "index out of bounds")
      ELSE Ok(segs.p, [span |-> Span(segs.v[1].ident.span.s,
                                     segs.v[Len(segs.v)].ident.span.e),
                       segments |-> segs.v]))))

\* The end of a type's span: the end of the lookahead after the type.
TypeSpan(first, lookahead) == Span(first.span.s, lookahead.span.e)

parse_type(p) ==
    Then(peek(p), LAMBDA pk :
    Then(CASE pk.v.kind \in {"Ident", "PathSeparator"} ->
                Then(self("parse_path", pk.p, <<>>), LAMBDA path :
                     Ok(path.p, [k |-> "Path", path |-> path.v]))
           [] pk.v.kind = "LBracket" -> self("parse_array_ty", pk.p, <<>>)
           [] OTHER -> Err(pk.p, InvalidToken(pk.v)), LAMBDA kind :
    Then(peek(kind.p), LAMBDA pk2 :
         Ok(pk2.p, [span |-> TypeSpan(pk.v, pk2.v), kind |-> kind.v]))))

parse_array_ty(p) ==
    Then(eat(p, "LBracket"), LAMBDA lb :
    Then(self("parse_type", lb.p, <<>>), LAMBDA ty :
    Then(eat(ty.p, "Semicolon"), LAMBDA semi :
    Then(self("parse_integer_literal", semi.p, <<>>), LAMBDA len :
      IF len.v < 0 THEN Err(len.p, InvalidArraySize(len.v))
      ELSE Ok(len.p, [k |-> "Array", elem |-> ty.v, len |-> len.v])))))

(***************************************************************************)
(* The declaration and statement parsers.                                  *)
(***************************************************************************)
RECURSIVE fields_loop(_, _)
RECURSIVE parameters_loop(_, _)
RECURSIVE statements_loop(_, _)
RECURSIVE decls_loop(_, _)

\* if self.peek()?.kind == kind { self.eat(kind)?; }
EatIfNext(p, kind) ==
    Then(peek(p), LAMBDA pk : IF pk.v.kind = kind THEN eat(pk.p, kind) ELSE pk)

\* The loop of parse_fields.
fields_loop(p, fields) ==
    Then(peek(p), LAMBDA pk :
      CASE pk.v.kind = "Ident" ->
             Then(parse_ident(pk.p), LAMBDA ident :
             Then(eat(ident.p, "Colon"), LAMBDA colon :
             Then(self("parse_type", colon.p, <<>>), LAMBDA field_type :
             Then(EatIfNext(field_type.p, "Comma"), LAMBDA comma :
                  fields_loop(Again("fields_loop", p, comma.p), Append(fields,
                      [ident |-> ident.v,
                       field_type |-> field_type.v,
                       span |-> Span(ident.v.span.s, field_type.v.span.e)]))))))
        [] pk.v.kind = "RBrace" -> Ok(pk.p, fields)
        [] OTHER -> Err(pk.p, InvalidToken(pk.v)))

parse_fields(p) == fields_loop(p, <<>>)

parse_struct(p) ==
    Then(eat(p, "Struct"), LAMBDA kw :
    Then(parse_ident(kw.p), LAMBDA ident :
    Then(eat(ident.p, "LBrace"), LAMBDA lb :
    Then(peek(lb.p), LAMBDA pk :
    Then(IF pk.v.kind = "Ident" THEN self("parse_fields", pk.p, <<>>)
         ELSE Err(pk.p, InvalidToken(pk.v)), LAMBDA fields :
    Then(eat(fields.p, "RBrace"), LAMBDA rb :
         Ok(rb.p, [ident |-> ident.v,
                   fields |-> fields.v,
                   span |-> Span(kw.v.span.s, rb.v.span.e)])))))))

parse_named_parameter(p) ==
    Then(parse_ident(p), LAMBDA ident :
    Then(eat(ident.p, "Colon"), LAMBDA colon :
    Then(self("parse_type", colon.p, <<>>), LAMBDA ty :
         Ok(ty.p, [ident |-> ident.v, ty |-> ty.v,
                   span |-> Span(ident.v.span.s, ty.v.span.e)]))))

\* if self.peek()?.kind == tok { self.eat(tok)?; Some(self.parse_type()?) } else { None }
OptionalType(p, tok) ==
    Then(peek(p), LAMBDA pk :
      IF pk.v.kind = tok
      THEN Then(eat(pk.p, tok), LAMBDA t :
           Then(self("parse_type", t.p, <<>>), LAMBDA ty : Ok(ty.p, <<ty.v>>)))
      ELSE Ok(pk.p, <<>>))

parse_variable_decl(p) ==
    Then(eat(p, "Let"), LAMBDA l :
    Then(parse_ident(l.p), LAMBDA ident :
    Then(OptionalType(ident.p, "Colon"), LAMBDA ty :
    Then(eat(ty.p, "Assign"), LAMBDA asg :
    Then(self("parse_expression", asg.p, <<>>), LAMBDA expr :
    Then(eat(expr.p, "Semicolon"), LAMBDA s :
         Ok(s.p, [k |-> "VarDecl", ident |-> ident.v, ty |-> ty.v, expr |-> expr.v,
                  span |-> Span(l.v.span.s, s.v.span.e)])))))))

parse_statement(p) ==
    Then(peek(p), LAMBDA pk :
      IF pk.v.kind = "Let" THEN self("parse_variable_decl", pk.p, <<>>)
      ELSE Panic(pk.p, "unimplemented"))

\* The parameter loop of parse_fn.
parameters_loop(p, parameters) ==
    Then(peek(p), LAMBDA pk :
      IF pk.v.kind = "RParen" THEN Ok(pk.p, parameters)
      ELSE Then(self("parse_named_parameter", pk.p, <<>>), LAMBDA param :
           Then(EatIfNext(param.p, "Comma"), LAMBDA comma :
                parameters_loop(Again("parameters_loop", p, comma.p), Append(parameters, param.v)))))

\* The statement loop of parse_fn.
statements_loop(p, statements) ==
    Then(peek(p), LAMBDA pk :
      IF pk.v.kind = "RBrace" THEN Ok(pk.p, statements)
      ELSE Then(self("parse_statement", pk.p, <<>>), LAMBDA st :
                statements_loop(Again("statements_loop", p, st.p),
                                Append(statements, st.v))))

parse_fn(p) ==
    Then(eat(p, "Fn"), LAMBDA fn_token :
    Then(parse_ident(fn_token.p), LAMBDA ident :
    Then(eat(ident.p, "LParen"), LAMBDA lp :
    Then(parameters_loop(lp.p, <<>>), LAMBDA parameters :
    Then(eat(parameters.p, "RParen"), LAMBDA rp :
    Then(OptionalType(rp.p, "Arrow"), LAMBDA ret :
    Then(eat(ret.p, "LBrace"), LAMBDA lb :
    Then(statements_loop(lb.p, <<>>), LAMBDA statements :
    Then(eat(statements.p, "RBrace"), LAMBDA rb :
         Ok(rb.p, [ident |-> ident.v,
                   parameters |-> parameters.v,
                   ret |-> ret.v,
                   statements |-> statements.v,
                   span |-> Span(fn_token.v.span.s, rb.v.span.e)]))))))))))

\* self.<method>(..): a call of one parser method by another.
self(method, p, args) ==
    CASE method = "parse_literal" -> parse_literal(p)
      [] method = "parse_integer_literal" -> parse_integer_literal(p)
      [] method = "parse_array_literal" -> parse_array_literal(p)
      [] method = "parse_expression" -> parse_expression(p)
      [] method = "parse_inner_expression" -> parse_inner_expression(p, args[1], args[2])
      [] method = "parse_primary" -> parse_primary(p)
      [] method = "parse_expr_list" -> parse_expr_list(p, args[1])
      [] method = "parse_path" -> parse_path(p)
      [] method = "parse_type" -> parse_type(p)
      [] method = "parse_array_ty" -> parse_array_ty(p)
      [] method = "parse_fields" -> parse_fields(p)
      [] method = "parse_struct" -> parse_struct(p)
      [] method = "parse_named_parameter" -> parse_named_parameter(p)
      [] method = "parse_variable_decl" -> parse_variable_decl(p)
      [] method = "parse_statement" -> parse_statement(p)
      [] OTHER -> parse_fn(p)

\* Whether a peek result is the end-of-stream flavoured InvalidToken error.
IsEofError(r) == r.tag = "Err" /\ r.v.e = "InvalidToken" /\ r.v.tok.kind = "Eof"

\* The loop of parse.
decls_loop(p, decls) ==
    Only({IF IsEofError(pk) THEN Ok(pk.p, decls)
          ELSE IF pk.tag # "Ok" THEN pk
          ELSE CASE pk.v.kind = "Struct" ->
                      Then(self("parse_struct", pk.p, <<>>), LAMBDA d :
                           decls_loop(Again("decls_loop", p, d.p),
                                      Append(decls, [k |-> "Struct", decl |-> d.v])))
                 [] pk.v.kind = "Fn" ->
                      Then(self("parse_fn", pk.p, <<>>), LAMBDA d :
                           decls_loop(Again("decls_loop", p, d.p),
                                      Append(decls, [k |-> "Fn", decl |-> d.v])))
                 [] OTHER -> Err(pk.p, InvalidToken(pk.v)) :
          pk \in {peek(p)}})

parse(p) == decls_loop(p, <<>>)

(***************************************************************************)
(* Source texts.  A source is written as a sequence of lexemes (kind and   *)
(* text); the lexer gives each its byte span.  `gap` is the white space    *)
(* written before every token but a comma, which follows its predecessor   *)
(* directly.                                                               *)
(***************************************************************************)
Lexeme(kind, lit) == [kind |-> kind, lit |-> lit]

PunctText(kind) ==
    CASE kind = "Struct" -> <<"s", "t", "r", "u", "c", "t">>
      [] kind = "Fn" -> <<"f", "n">>
      [] kind = "Let" -> <<"l", "e", "t">>
      [] kind = "LParen" -> <<"(">>
      [] kind = "RParen" -> <<")">>
      [] kind = "LBrace" -> <<"{">>
      [] kind = "RBrace" -> <<"}">>
      [] kind = "LBracket" -> <<"[">>
      [] kind = "RBracket" -> <<"]">>
      [] kind = "Colon" -> <<":">>
      [] kind = "Comma" -> <<",">>
      [] kind = "Semicolon" -> <<";">>
      [] kind = "Arrow" -> <<"-", ">">>
      [] kind = "Assign" -> <<"=">>
      [] kind = "PathSeparator" -> <<":", ":">>
      [] kind = "Dot" -> <<".">>
      [] kind = "Plus" -> <<"+">>
      [] kind = "Minus" -> <<"-">>
      [] kind = "Star" -> <<"*">>
      [] kind = "Slash" -> <<"/">>
      [] OTHER -> <<"?">>

P(kind) == Lexeme(kind, PunctText(kind))

DigitChar(d) == <<"0", "1", "2", "3", "4", "5", "6", "7", "8", "9">>[d + 1]

RECURSIVE Digits(_)
Digits(n) == IF n < 10 THEN <<DigitChar(n)>> ELSE Append(Digits(n \div 10), DigitChar(n % 10))

\* The identifier written for the i-th name of a family ("t1", "f2", "v3").
Name(prefix, i) == <<prefix>> \o Digits(i)

Id(prefix, i) == Lexeme("Ident", Name(prefix, i))

\* An integer written in decimal: a minus sign is a token of its own, and the
\* decimal literal token holds digits only.
IntLexemes(n) ==
    IF n < 0 THEN <<P("Minus"), Lexeme("DecLit", Digits(0 - n))>>
    ELSE <<Lexeme("DecLit", Digits(n))>>

RECURSIVE LexFrom(_, _, _, _)
LexFrom(lexemes, gap, pos, acc) ==
    IF lexemes = <<>> THEN [toks |-> acc, len |-> pos]
    ELSE LET l == Head(lexemes)
             s == pos + (IF l.kind = "Comma" THEN 0 ELSE gap)
             e == s + Len(l.lit)
         IN  LexFrom(Tail(lexemes), gap, e, Append(acc, Token(l.kind, l.lit, Span(s, e))))

\* The token stream of a source text: its tokens with their spans, and the
\* length of the text (where end-of-stream is reported).
Lex(lexemes, gap) == LexFrom(lexemes, gap, 0, <<>>)

RECURSIVE Concat(_)
Concat(ss) == IF ss = <<>> THEN <<>> ELSE Head(ss) \o Concat(Tail(ss))

(***************************************************************************)
(* Types as written.  A path type is n identifiers t1 .. tn with a path    *)
(* separator between consecutive ones (and a leading one when `lead`); an  *)
(* array type is [ elem ; len ].                                           *)
(***************************************************************************)
PathTy(lead, n) == [k |-> "Path", lead |-> lead, n |-> n, elem |-> <<>>, len |-> 0]

ArrayTy(elem, len) == [k |-> "Array", lead |-> FALSE, n |-> 0, elem |-> <<elem>>, len |-> len]

Lens == {-1, 0, 4, 12}

PathTys == {PathTy(lead, n) : lead \in BOOLEAN, n \in 1..MaxSegs}

RECURSIVE Tys(_)
Tys(nest) ==
    IF nest = 0 THEN PathTys
    ELSE PathTys \cup {ArrayTy(e, l) : e \in Tys(nest - 1), l \in Lens}

RECURSIVE RenderTy(_)
RenderTy(ty) ==
    IF ty.k = "Path"
    THEN (IF ty.lead THEN <<P("PathSeparator")>> ELSE <<>>)
         \o Concat([i \in 1..ty.n |->
                      IF i = 1 THEN <<Id("t", i)>> ELSE <<P("PathSeparator"), Id("t", i)>>])
    ELSE <<P("LBracket")>> \o RenderTy(ty.elem[1]) \o <<P("Semicolon")>>
         \o IntLexemes(ty.len) \o <<P("RBracket")>>

\* The shape of a parsed ast::Type, spans left out: what RenderTy was given,
\* for a type that was parsed as written.
RECURSIVE TyShape(_)
TyShape(t) ==
    IF t.kind.k = "Path"
    THEN [k |-> "Path", segs |-> [i \in 1..Len(t.kind.path.segments) |->
                                    t.kind.path.segments[i].ident.id],
          elem |-> <<>>, len |-> 0]
    ELSE [k |-> "Array", segs |-> <<>>, elem |-> <<TyShape(t.kind.elem)>>, len |-> t.kind.len]

RECURSIVE TyWritten(_)
TyWritten(ty) ==
    IF ty.k = "Path"
    THEN [k |-> "Path", segs |-> [i \in 1..ty.n |-> Name("t", i)], elem |-> <<>>, len |-> 0]
    ELSE [k |-> "Array", segs |-> <<>>, elem |-> <<TyWritten(ty.elem[1])>>, len |-> ty.len]

\* A type the way the code accepts it: a path of one segment.
T1 == PathTy(FALSE, 1)
(***************************************************************************)
(* Expressions as written.  A shape is the tree an expression denotes:     *)
(* an identifier, a binary operation, a field access, a call, or a method  *)
(* call whose first argument is the receiver.                              *)
(***************************************************************************)
Sh(k, op, name, args) == [k |-> k, op |-> op, name |-> name, args |-> args]

Leaf == Sh("id", "", <<>>, <<>>)

ArithOps == {"Add", "Sub", "Mul", "Div"}

\* The binary trees with exactly n operators.
RECURSIVE Arith(_)
Arith(n) ==
    IF n = 0 THEN {Leaf}
    ELSE UNION {{Sh("bin", op, <<>>, <<l, r>>) :
                    op \in ArithOps, l \in Arith(i), r \in Arith(n - 1 - i)} :
                i \in 0..(n - 1)}

ArithShapes == UNION {Arith(n) : n \in 0..MaxOps}

\* A call suffix with k arguments is written k; a field suffix is written -1.
Suffixes == {-1} \cup (0..MaxArgs)

Leaves(k) == [i \in 1..k |-> Leaf]

RECURSIVE Chain(_, _)
Chain(base, sufs) ==
    IF sufs = <<>> THEN base
    ELSE LET inner == Chain(base, SubSeq(sufs, 1, Len(sufs) - 1))
             suf == sufs[Len(sufs)]
         IN  IF suf = -1 THEN Sh("field", "", <<>>, <<inner>>)
             ELSE Sh("method", "", <<>>, <<inner>> \o Leaves(suf))

InContext(ctx, s) ==
    CASE ctx = "sum" -> Sh("bin", "Add", <<>>, <<Leaf, s>>)
      [] ctx = "product" -> Sh("bin", "Mul", <<>>, <<s, Leaf>>)
      [] OTHER -> s

ChainShapes ==
    {InContext(ctx, Chain(base, sufs)) :
        ctx \in {"alone", "sum", "product"},
        base \in {Leaf} \cup {Sh("call", "", <<>>, Leaves(k)) : k \in 0..MaxArgs},
        sufs \in UNION {[1..n -> Suffixes] : n \in 0..MaxChain}}

\* Names the identifiers of a shape v<i>, v<i+1>, .. in the order they are written.
RECURSIVE Relabel(_, _)
RECURSIVE RelabelArgs(_, _, _)
RelabelArgs(args, i, acc) ==
    IF args = <<>> THEN [s |-> acc, i |-> i]
    ELSE LET r == Relabel(Head(args), i)
         IN  RelabelArgs(Tail(args), r.i, Append(acc, r.s))

Relabel(s, i) ==
    CASE s.k = "id" -> [s |-> [s EXCEPT !.name = Name("v", i)], i |-> i + 1]
      [] s.k = "bin" ->
           LET r == RelabelArgs(s.args, i, <<>>)
           IN  [s |-> [s EXCEPT !.args = r.s], i |-> r.i]
      [] s.k = "call" ->
           LET r == RelabelArgs(s.args, i + 1, <<>>)
           IN  [s |-> [s EXCEPT !.name = Name("v", i), !.args = r.s], i |-> r.i]
      [] OTHER ->
           LET b == Relabel(s.args[1], i)
               r == RelabelArgs(Tail(s.args), b.i + 1, <<b.s>>)
           IN  [s |-> [s EXCEPT !.name = Name("v", b.i), !.args = r.s], i |-> r.i]

\* The rank of an operator in ordinary arithmetic notation, by which the
\* writer decides where parentheses are needed.
Rank(s) ==
    CASE s.k = "bin" /\ s.op \in {"Add", "Sub"} -> 1
      [] s.k = "bin" /\ s.op \in {"Mul", "Div"} -> 2
      [] OTHER -> 3

OpToken(op) ==
    CASE op = "Add" -> P("Plus") [] op = "Sub" -> P("Minus")
      [] op = "Mul" -> P("Star") [] OTHER -> P("Slash")

RECURSIVE RenderExpr(_)
RECURSIVE RenderArgs(_)
RenderArgs(args) ==
    IF args = <<>> THEN <<>>
    ELSE IF Len(args) = 1 THEN RenderExpr(args[1])
    ELSE RenderExpr(Head(args)) \o <<P("Comma")>> \o RenderArgs(Tail(args))

Parens(yes, lexemes) == IF yes THEN <<P("LParen")>> \o lexemes \o <<P("RParen")>> ELSE lexemes

\* The expression in ordinary notation: a left operand is parenthesised when
\* its operator ranks lower, a right operand when it does not rank higher.
RenderExpr(s) ==
    CASE s.k = "id" -> <<Lexeme("Ident", s.name)>>
      [] s.k = "bin" ->
           Parens(Rank(s.args[1]) < Rank(s), RenderExpr(s.args[1]))
           \o <<OpToken(s.op)>>
           \o Parens(Rank(s.args[2]) <= Rank(s), RenderExpr(s.args[2]))
      [] s.k = "call" ->
           <<Lexeme("Ident", s.name), P("LParen")>> \o RenderArgs(s.args) \o <<P("RParen")>>
      [] s.k = "field" ->
           RenderExpr(s.args[1]) \o <<P("Dot"), Lexeme("Ident", s.name)>>
      [] OTHER ->
           RenderExpr(s.args[1]) \o <<P("Dot"), Lexeme("Ident", s.name), P("LParen")>>
           \o RenderArgs(Tail(s.args)) \o <<P("RParen")>>

\* The shape of a parsed ast::Expression, spans left out.
RECURSIVE AstShape(_)
AstShape(e) ==
    CASE e.kind.k = "Literal" /\ e.kind.lit.kind.k = "Ident" ->
           Sh("id", "", e.kind.lit.kind.ident.id, <<>>)
      [] e.kind.k = "Binary" ->
           Sh("bin", e.kind.op, <<>>, <<AstShape(e.kind.lhs), AstShape(e.kind.rhs)>>)
      [] e.kind.k = "FieldAccess" ->
           Sh("field", "", e.kind.ident.id, <<AstShape(e.kind.base)>>)
      [] e.kind.k = "FnCall" ->
           Sh("call", "", e.kind.path.segments[1].ident.id,
              [i \in 1..Len(e.kind.exprs) |-> AstShape(e.kind.exprs[i])])
      [] e.kind.k = "MethodCall" ->
           Sh("method", "", e.kind.segment.ident.id,
              [i \in 1..Len(e.kind.exprs) |-> AstShape(e.kind.exprs[i])])
      [] OTHER -> Sh("other", "", <<>>, <<>>)

(***************************************************************************)
(* Declarations as written.                                                *)
(***************************************************************************)
StructFieldTys == {T1, PathTy(TRUE, 1), PathTy(FALSE, 2), ArrayTy(T1, 4)}

FnTys == {T1, ArrayTy(T1, 4)}

MaxParams == 1
MaxStmts == 1

\* A field or parameter as written: its type, and whether a comma follows it.
Members(tys, n) == UNION {[1..k -> [ty : tys, comma : BOOLEAN]] : k \in 0..n}

Options(tys) == {<<>>} \cup {<<ty>> : ty \in tys}

RenderMembers(prefix, ms) ==
    Concat([j \in 1..Len(ms) |->
              <<Id(prefix, j), P("Colon")>> \o RenderTy(ms[j].ty)
              \o (IF ms[j].comma THEN <<P("Comma")>> ELSE <<>>)])

RenderStruct(fields) ==
    <<P("Struct"), Id("s", 1), P("LBrace")>> \o RenderMembers("f", fields) \o <<P("RBrace")>>

RenderLet(j, ty) ==
    <<P("Let"), Id("y", j)>>
    \o (IF ty = <<>> THEN <<>> ELSE <<P("Colon")>> \o RenderTy(ty[1]))
    \o <<P("Assign"), Id("x", 1), P("Semicolon")>>

RenderFn(params, ret, stmts) ==
    <<P("Fn"), Id("g", 1), P("LParen")>> \o RenderMembers("x", params) \o <<P("RParen")>>
    \o (IF ret = <<>> THEN <<>> ELSE <<P("Arrow")>> \o RenderTy(ret[1]))
    \o <<P("LBrace")>>
    \o Concat([j \in 1..Len(stmts) |-> RenderLet(j, stmts[j])])
    \o <<P("RBrace")>>

Member(ty, comma) == [ty |-> ty, comma |-> comma]

\* The declarations a program is put together from.
DeclKinds == {"struct", "struct_comma", "fn", "fn_bare"}

RenderDecl(d) ==
    CASE d = "struct" -> RenderStruct(<<Member(T1, FALSE)>>)
      [] d = "struct_comma" -> RenderStruct(<<Member(T1, TRUE), Member(T1, TRUE)>>)
      [] d = "fn" -> RenderFn(<<Member(T1, FALSE)>>, <<T1>>, <<(<<T1>>)>>)
      [] OTHER -> RenderFn(<<>>, <<>>, <<>>)

(***************************************************************************)
(* The inputs: what is written, and the token stream the lexer makes of it.*)
(***************************************************************************)
Follows == {"Comma", "RBrace", "Eof"}

Gaps == {0, 1}

TypeGoals ==
    {[form |-> "type", ty |-> ty, follow |-> f, gap |-> g] :
        ty \in Tys(MaxNest), f \in Follows, g \in Gaps}

StructGoals ==
    {[form |-> "struct", fields |-> fs, gap |-> g] :
        fs \in Members(StructFieldTys, MaxFields), g \in Gaps}

FnGoals ==
    {[form |-> "fn", params |-> ps, ret |-> r, stmts |-> ss, gap |-> 1] :
        ps \in Members(FnTys, MaxParams), r \in Options(FnTys),
        ss \in UNION {[1..k -> Options(FnTys)] : k \in 0..MaxStmts}}

ProgramGoals ==
    {[form |-> "program", decls |-> ds, gap |-> 1] :
        ds \in UNION {[1..k -> DeclKinds] : k \in 0..MaxDecls}}

ExprGoals ==
    {[form |-> "expr", shape |-> Relabel(s, 1).s, term |-> t, gap |-> 1] :
        s \in ArithShapes \cup ChainShapes, t \in BOOLEAN}

Follower(f) == IF f = "Eof" THEN <<>> ELSE <<P(f)>>

\* Programs that between them take every loop of the parser round:
\*   struct s1 { f1 : t1 t2 , f2 : t1 , } struct s2 { f1 : t1 }
\*   fn g1 ( x1 : t1 , x2 : t1 ) -> t1 { let y1 : t1 = v1 ; let y2 = v2 ; }
\*   fn g1 ( ) { let y1 = v1 + v2 * v3 - 7 ; }
\*   fn g1 ( ) { let y1 = v1 . f1 ( v2 , v3 ) . f2 ; }
\*   fn g1 ( ) { let y1 = [ v1 , v2 ] ; }
FnWith(expr) ==
    <<P("Fn"), Id("g", 1), P("LParen"), P("RParen"), P("LBrace"),
      P("Let"), Id("y", 1), P("Assign")>> \o expr \o <<P("Semicolon"), P("RBrace")>>

Programs ==
    << <<P("Struct"), Id("s", 1), P("LBrace"),
         Id("f", 1), P("Colon"), Id("t", 1), Id("t", 2), P("Comma"),
         Id("f", 2), P("Colon"), Id("t", 1), P("Comma"), P("RBrace"),
         P("Struct"), Id("s", 2), P("LBrace"), Id("f", 1), P("Colon"), Id("t", 1), P("RBrace")>>,
       <<P("Fn"), Id("g", 1), P("LParen"),
         Id("x", 1), P("Colon"), Id("t", 1), P("Comma"),
         Id("x", 2), P("Colon"), Id("t", 1), P("RParen"), P("Arrow"), Id("t", 1), P("LBrace"),
         P("Let"), Id("y", 1), P("Colon"), Id("t", 1), P("Assign"), Id("v", 1), P("Semicolon"),
         P("Let"), Id("y", 2), P("Assign"), Id("v", 2), P("Semicolon"),
         P("RBrace")>>,
       FnWith(<<Id("v", 1), P("Plus"), Id("v", 2), P("Star"), Id("v", 3),
                P("Minus"), Lexeme("DecLit", Digits(7))>>),
       FnWith(<<Id("v", 1), P("Dot"), Id("f", 1), P("LParen"),
                Id("v", 2), P("Comma"), Id("v", 3), P("RParen"), P("Dot"), Id("f", 2)>>),
       FnWith(<<P("LBracket"), Id("v", 1), P("Comma"), Id("v", 2), P("RBracket")>>) >>

\* The kinds of token one token of the program is replaced by; Error is the
\* lexer's token for text that is no token.
Alphabet ==
    {"Struct", "Fn", "Let", "LParen", "RParen", "LBrace", "RBrace", "LBracket", "RBracket",
     "Colon", "Comma", "Semicolon", "Arrow", "Assign", "PathSeparator", "Dot", "Plus",
     "Minus", "Star", "Slash", "Ident", "DecLit", "Error"}

LexemeOf(kind) ==
    CASE kind = "Ident" -> Id("z", 1)
      [] kind = "DecLit" -> Lexeme("DecLit", Digits(3))
      [] kind = "Error" -> Lexeme("Error", <<"#">>)
      [] OTHER -> P(kind)

\* One of the programs as it stands, cut off after `at` tokens, or with
\* token `at` replaced.
StreamGoals ==
    UNION {{[form |-> "stream", prog |-> i, at |-> 0, put |-> "None", gap |-> 1]}
           \cup {[form |-> "stream", prog |-> i, at |-> k, put |-> "Cut", gap |-> 1] :
                    k \in 0..(Len(Programs[i]) - 1)}
           \cup {[form |-> "stream", prog |-> i, at |-> k, put |-> kind, gap |-> 1] :
                    k \in 1..Len(Programs[i]), kind \in Alphabet} :
           i \in 1..Len(Programs)}

Edited(g) ==
    CASE g.put = "None" -> Programs[g.prog]
      [] g.put = "Cut" -> SubSeq(Programs[g.prog], 1, g.at)
      [] OTHER -> [Programs[g.prog] EXCEPT ![g.at] = LexemeOf(g.put)]

Written(g) ==
    CASE g.form = "type" -> RenderTy(g.ty) \o Follower(g.follow)
      [] g.form = "struct" -> RenderStruct(g.fields)
      [] g.form = "fn" -> RenderFn(g.params, g.ret, g.stmts)
      [] g.form = "program" -> Concat([i \in 1..Len(g.decls) |-> RenderDecl(g.decls[i])])
      [] g.form = "stream" -> Edited(g)
      [] OTHER -> RenderExpr(g.shape) \o (IF g.term THEN <<P("Semicolon")>> ELSE <<>>)

Source(g) == Lex(Written(g), g.gap)

(***************************************************************************)
(* The state machine: a parser is constructed on a source, then one of its *)
(* methods is called on it.                                                *)
(***************************************************************************)
NoResult == [tag |-> "None", v |-> <<>>]

Result(r) == [tag |-> r.tag, v |-> r.v]

Init ==
    /\ \/ \E g \in TypeGoals : goal = g
       \/ \E g \in StructGoals : goal = g
       \/ \E g \in FnGoals : goal = g
       \/ \E g \in ProgramGoals : goal = g
       \/ \E g \in ExprGoals : goal = g
    /\ parser = New(Source(goal))
    /\ out = NoResult
    /\ pc = "new"

Call(method, r) ==
    /\ parser' = r.p
    /\ out' = Result(r)
    /\ pc' = method
    /\ UNCHANGED goal

ParseType ==
    /\ pc = "new"
    /\ goal.form = "type"
    /\ Call("parse_type", parse_type(parser))

ParsePath ==
    /\ pc = "new"
    /\ goal.form = "type"
    /\ goal.ty.k = "Path"
    /\ Call("parse_path", parse_path(parser))

ParseStruct ==
    /\ pc = "new"
    /\ goal.form = "struct"
    /\ Call("parse_struct", parse_struct(parser))

ParseFn ==
    /\ pc = "new"
    /\ goal.form = "fn"
    /\ Call("parse_fn", parse_fn(parser))

Parse ==
    /\ pc = "new"
    /\ goal.form \in {"struct", "fn", "program"}
    /\ Call("parse", parse(parser))

ParseExpression ==
    /\ pc = "new"
    /\ goal.form = "expr"
    /\ Call("parse_expression", parse_expression(parser))

Next ==
    \/ ParseType
    \/ ParsePath
    \/ ParseStruct
    \/ ParseFn
    \/ Parse
    \/ ParseExpression

Spec == Init /\ [][Next]_vars

(***************************************************************************)
(* A second machine: parse() is called on a parser constructed on any of   *)
(* the edited programs and runs to its end; unless it aborted, the cursor  *)
(* is then driven on by further calls of next() and peek().                *)
(***************************************************************************)
StreamInit ==
    /\ goal \in StreamGoals
    /\ parser = New(Source(goal))
    /\ out = NoResult
    /\ pc = "new"

ParseStream ==
    /\ pc = "new"
    /\ goal.form = "stream"
    /\ Call("parse", parse(parser))

CursorNext ==
    /\ pc # "new"
    /\ goal.form = "stream"
    /\ out.tag # "Panic"
    /\ Call("next", next(parser))

CursorPeek ==
    /\ pc # "new"
    /\ goal.form = "stream"
    /\ out.tag # "Panic"
    /\ Call("peek", peek(parser))

StreamNext ==
    \/ ParseStream
    \/ CursorNext
    \/ CursorPeek

\* parse() is one call on one thread: once made, it runs.
StreamSpec == StreamInit /\ [][StreamNext]_vars /\ WF_vars(ParseStream)
(***************************************************************************)
(* Properties.                                                             *)
(***************************************************************************)
RECURSIVE HasEmptyCall(_)
HasEmptyCall(s) ==
    \/ s.k = "call" /\ s.args = <<>>
    \/ s.k = "method" /\ Len(s.args) = 1
    \/ \E i \in 1..Len(s.args) : HasEmptyCall(s.args[i])

RECURSIVE HasAccess(_)
HasAccess(s) ==
    \/ s.k \in {"field", "method"}
    \/ \E i \in 1..Len(s.args) : HasAccess(s.args[i])

RECURSIVE IsArith(_)
IsArith(s) ==
    \/ s.k = "id"
    \/ s.k = "bin" /\ s.op \in ArithOps /\ \A i \in 1..Len(s.args) : IsArith(s.args[i])

\* A type written the way parse_type takes it whole: a one-segment path, or an
\* array of such a type with a length that is not negative.
RECURSIVE Plain(_)
Plain(ty) ==
    IF ty.k = "Path" THEN ty.n = 1 /\ ~ty.lead
    ELSE ty.len >= 0 /\ Plain(ty.elem[1])

\* C1: where the written expression has member accesses, the tree that
\* parse_expression returns is the written one: a.b is FieldAccess(a, b),
\* a.f(x, y) is MethodCall(f, [a, x, y]) with the receiver first and the
\* arguments in source order, and accesses fold to the left; such an
\* expression followed by its terminator is parsed successfully when every
\* call in it has an argument.
C1_AccessFolds ==
    (pc = "parse_expression" /\ HasAccess(goal.shape)) =>
        /\ out.tag = "Ok" => AstShape(out.v) = goal.shape
        /\ (goal.term /\ ~HasEmptyCall(goal.shape)) => out.tag = "Ok"

\* C1 witness: a.b.f(x, y) has been parsed to MethodCall(f, [FieldAccess(a, b), x, y]).
C1_Witness ==
    /\ pc = "parse_expression"
    /\ out.tag = "Ok"
    /\ goal.shape.k = "method"
    /\ Len(goal.shape.args) = 3
    /\ goal.shape.args[1].k = "field"
    /\ out.v.kind.k = "MethodCall"
    /\ Len(out.v.kind.exprs) = 3
    /\ out.v.kind.exprs[1].kind.k = "FieldAccess"

\* C2: for an expression of operands joined by + - * / and parentheses, the
\* tree parse_expression returns is the tree of ordinary arithmetic notation
\* (* and / bind tighter than + and -, equal ranks associate to the left, a
\* parenthesised group is one operand); followed by its terminator, the
\* expression is parsed successfully.
C2_ArithmeticTree ==
    (pc = "parse_expression" /\ IsArith(goal.shape)) =>
        /\ out.tag = "Ok" => AstShape(out.v) = goal.shape
        /\ goal.term => out.tag = "Ok"

\* C2 witness: a * (b + c) - d has been parsed to a Binary tree.
C2_Witness ==
    /\ pc = "parse_expression"
    /\ out.tag = "Ok"
    /\ goal.shape.k = "bin" /\ goal.shape.op = "Sub"
    /\ goal.shape.args[1].k = "bin" /\ goal.shape.args[1].op = "Mul"
    /\ goal.shape.args[1].args[2].k = "bin" /\ goal.shape.args[1].args[2].op = "Add"
    /\ out.v.kind.k = "Binary" /\ out.v.kind.op = "Sub"
    /\ out.v.kind.lhs.kind.k = "Binary" /\ out.v.kind.lhs.kind.op = "Mul"

\* C3: parse() of a program of k >= 0 well-formed declarations, after which
\* end-of-stream is found where a declaration is expected, succeeds with
\* those k declarations; for k = 0 (no tokens at all) with none.
C3_ParseEndsAtEof ==
    (pc = "parse" /\ goal.form = "program") =>
        /\ out.tag = "Ok"
        /\ Len(out.v) = Len(goal.decls)
        /\ \A i \in 1..Len(goal.decls) :
              out.v[i].k = (IF goal.decls[i] \in {"struct", "struct_comma"}
                            THEN "Struct" ELSE "Fn")

\* C4: a fixed-size array type [ element ; n ] with n >= 0 is accepted by
\* parse_type: the result is Array(element, n) and the closing bracket is
\* consumed with the type; a struct whose fields have such types, each
\* followed by a comma, parses successfully.
C4_ArrayTypeAccepted ==
    /\ (pc = "parse_type" /\ goal.ty.k = "Array" /\ Plain(goal.ty) /\ goal.follow # "Eof") =>
          /\ out.tag = "Ok"
          /\ TyShape(out.v) = TyWritten(goal.ty)
          /\ Consumed(parser) = Len(RenderTy(goal.ty))
    /\ (/\ pc = "parse_struct"
        /\ goal.fields # <<>>
        /\ \A j \in 1..Len(goal.fields) : Plain(goal.fields[j].ty) /\ goal.fields[j].comma) =>
          out.tag = "Ok"

C6_EmptyCall ==
    (/\ pc = "parse_expression"
     /\ goal.term
     /\ \/ goal.shape.k = "call" /\ goal.shape.args = <<>>
        \/ goal.shape.k = "method" /\ Len(goal.shape.args) = 1
                                   /\ goal.shape.args[1].k = "id") =>
        /\ out.tag = "Ok"
        /\ AstShape(out.v) = goal.shape

\* The struct declaration without the comma after its last field.
NoTrailingComma(g) == [g EXCEPT !.fields[Len(g.fields)].comma = FALSE]

\* C7: a struct declaration written with a comma after its last field is
\* parsed to the StructDecl (identifier, fields, their types and spans) that
\* the same declaration without that comma is parsed to.
C7_TrailingComma ==
    (/\ pc = "parse_struct"
     /\ goal.fields # <<>>
     /\ goal.fields[Len(goal.fields)].comma
     /\ parse_struct(New(Source(NoTrailingComma(goal)))).tag = "Ok") =>
        /\ out.tag = "Ok"
        /\ out.v.ident = parse_struct(New(Source(NoTrailingComma(goal)))).v.ident
        /\ out.v.fields = parse_struct(New(Source(NoTrailingComma(goal)))).v.fields

\* C8: a struct body in which a field other than the last is not followed
\* by a comma is rejected: parse_struct returns an error.
C8_MissingCommaRejected ==
    (/\ pc = "parse_struct"
     /\ \E j \in 1..(Len(goal.fields) - 1) : ~goal.fields[j].comma) =>
        out.tag = "Err"

\* C8 witness: struct s1 { f1 : t1 f2 : t1 } has been rejected at the colon
\* after f2.
C8_Witness ==
    /\ pc = "parse_struct"
    /\ Len(goal.fields) = 2
    /\ goal.fields[1] = Member(T1, FALSE)
    /\ goal.fields[2].ty = T1
    /\ out.tag = "Err"
    /\ out.v.e = "InvalidToken"
    /\ out.v.tok.kind = "Colon"

\* C9: a path of n >= 1 identifiers with a path separator between
\* consecutive ones is parsed by parse_path to the Path of those n segments
\* in order, and all its 2n - 1 tokens are consumed.
C9_PathSegments ==
    (pc = "parse_path" /\ ~goal.ty.lead /\ goal.follow # "Eof") =>
        /\ out.tag = "Ok"
        /\ [i \in 1..Len(out.v.segments) |-> out.v.segments[i].ident.id]
             = [i \in 1..goal.ty.n |-> Name("t", i)]
        /\ Consumed(parser) = 2 * goal.ty.n - 1

\* C10: the span of a Type returned by parse_type runs from the start of
\* the first token consumed for it to the end of the last one, and so does
\* the span of the FieldDecl built from it.
C10_SpanOfConsumed ==
    /\ (pc = "parse_type" /\ out.tag = "Ok") =>
          out.v.span = Span(parser.lexer.source[1].span.s,
                            parser.lexer.source[Consumed(parser)].span.e)
    /\ (pc = "parse_struct" /\ out.tag = "Ok" /\ goal.fields[1].ty = T1) =>
          out.v.fields[1].span = Span(parser.lexer.source[4].span.s,
                                      parser.lexer.source[6].span.e)
\* The loops of the parser.
Loops ==
    {"decls_loop", "fields_loop", "parameters_loop", "statements_loop", "path_segments",
     "array_literal_items", "expr_list_loop", "inner_expression_loop", "inner_expression_rhs"}

\* C11: on every token stream parse() finishes, with success, an error or an
\* abort; no loop of the parser has gone round again without a token
\* consumed in the iteration; and once next() or peek() has reported
\* end-of-stream or a lexical error, every later next() and peek() reports
\* the same failure and leaves the parser as it is.
C11_Finishes ==
    /\ [](pc # "new" => /\ parser.stalled = {}
                         /\ parser.loops \subseteq Loops
                         /\ out.tag \in {"Ok", "Err", "Panic"})
    /\ [][parser.reported # <<>> =>
            /\ out' = [tag |-> "Err", v |-> InvalidToken(parser.reported[1])]
            /\ parser' = parser]_vars
    /\ (pc = "new") ~> (pc = "parse")

\* C11 witness: parse() has finished the program of the arithmetic
\* expression with success, both loops of parse_inner_expression and the
\* loops around them having gone round, and a later next() has reported
\* end-of-stream once more.
C11_Witness ==
    /\ goal.form = "stream"
    /\ goal.put = "None"
    /\ pc = "next"
    /\ out.tag = "Err"
    /\ out.v.tok.kind = "Eof"
    /\ parser.reported = <<out.v.tok>>
    /\ parser.loops = {"decls_loop", "statements_loop",
                       "inner_expression_loop", "inner_expression_rhs"}
    /\ parser.stalled = {}
    /\ Consumed(parser) = Len(Programs[goal.prog])
====
